---------------------------- MODULE Spec2Model ----------------------------
(***************************************************************************)
(* Nonconformity functions of nonconformist/nc.py: the stateless score     *)
(* functions and the two caching adapters ProbEstClassifierNc and          *)
(* RegressorNc.                                                            *)
(*                                                                         *)
(* Numbers.  A float64 is modelled as an integer count of 1/Scale units    *)
(* and float64 arithmetic on the modelled values is exact.  A float32      *)
(* keeps fewer digits: it holds only multiples of F32Step units, and       *)
(* storing a float64 in a float32 array rounds to the nearest such         *)
(* multiple, ties to the even one.                                         *)
(*                                                                         *)
(* Arrays.  numpy arrays are objects: the caller's input arrays live in    *)
(* heap, the prediction arrays made by the wrapped model and by .copy()    *)
(* live in pheap, and the adapter's last_x / last_prediction are           *)
(* references into them.                                                   *)
(***************************************************************************)
EXTENDS Integers, Sequences, FiniteSets, TLC

\* ------------------------------------------------------------------ bounds
MaxSamples == 2
MaxFit == 1
MaxPool == 3
MaxScore == 2
SigDen == 4

\* --------------------------------------------------------------- numerics
Scale == 8
F32Step == 2
NegInf == -1000
Classes == {0, 1}

None == "None"

Max2(a, b) == IF a >= b THEN a ELSE b
Min2(a, b) == IF a <= b THEN a ELSE b
Abs(a) == IF a >= 0 THEN a ELSE -a

SeqsUpTo(S, n) == UNION {[1..k -> S] : k \in 1..n}
Range(a) == {a[i] : i \in 1..Len(a)}

\* prob[i] = v with prob a float32 array: round to float32, ties to even.
ToF32(v) ==
  LET q == v \div F32Step
      r == v % F32Step
  IN  IF 2 * r < F32Step THEN q * F32Step
      ELSE IF 2 * r > F32Step THEN (q + 1) * F32Step
      ELSE IF q % 2 = 0 THEN q * F32Step
      ELSE (q + 1) * F32Step

\* a[i] as Python indexes a 1-D array of size Len(a): 0-based, a negative
\* index counts from the end, anything else out of range raises IndexError.
\* A call that raises has no value: Raised stands for its missing result.
Raised == <<>>
InRange(a, i) == -Len(a) <= i /\ i < Len(a)
At(a, i) == IF i >= 0 THEN a[i + 1] ELSE a[Len(a) + i + 1]

\* np.sort(nc): ascending (insertion of each element into a sorted prefix).
RECURSIVE InsertSorted(_, _)
InsertSorted(s, v) ==
  IF s = <<>> THEN <<v>>
  ELSE IF v <= Head(s) THEN <<v>> \o s
  ELSE <<Head(s)>> \o InsertSorted(Tail(s), v)

RECURSIVE np_sort(_)
np_sort(a) ==
  IF a = <<>> THEN <<>>
  ELSE InsertSorted(np_sort(SubSeq(a, 1, Len(a) - 1)), a[Len(a)])

\* a[::-1]
Reversed(a) == [i \in 1..Len(a) |-> a[Len(a) + 1 - i]]

\* int(np.floor((num/den) * m)) for a significance num/den.
FloorMul(num, den, m) == (num * m) \div den

\* Elementwise numpy arithmetic on two 1-D arrays broadcasts a size-1 array
\* against the other; any other size mismatch raises ValueError.
Broadcastable(a, b) == Len(a) = Len(b) \/ Len(a) = 1 \/ Len(b) = 1
Bc(a, i) == IF Len(a) = 1 THEN a[1] ELSE a[i]

\* -------------------------------------------- classification score functions
\* prob[i] = prediction[i, y[i]] stored as float32; returns 1 - prob.
\* (prediction[i, ...] with i beyond the matrix's rows raises IndexError.)
inverse_probability(prediction, y) ==
  IF Len(y) > Len(prediction) THEN Raised
  ELSE [i \in 1..Len(y) |-> Scale - ToF32(prediction[i][y[i] + 1])]

\* (mutation: prediction[:, y[i]] = -np.inf, the whole column overwritten)
margin_mutated_whole_column(prediction, y) ==
  [i \in 1..Len(prediction) |->
     [j \in 1..Len(prediction[i]) |->
        IF \E k \in 1..Len(y) : k <= Len(prediction) /\ j = y[k] + 1
        THEN NegInf ELSE prediction[i][j]]]

\* The matrix margin leaves behind: prediction[i, y[i]] = -np.inf.
margin_mutated(prediction, y) ==
  [i \in 1..Len(prediction) |->
     IF i <= Len(y)
     THEN [j \in 1..Len(prediction[i]) |->
             IF j = y[i] + 1 THEN NegInf ELSE prediction[i][j]]
     ELSE prediction[i]]

RowMax(row) == CHOOSE m \in {row[j] : j \in 1..Len(row)} :
                 \A j \in 1..Len(row) : row[j] <= m

\* (mutation: the true-class entry read after it was overwritten)
margin_reads_overwritten(prediction, y) ==
  LET after == margin_mutated(prediction, y)
      prob  == [i \in 1..Len(y) |-> ToF32(after[i][y[i] + 1])]
      pmax  == [i \in 1..Len(after) |-> RowMax(after[i])]
  IN  IF Len(y) > Len(prediction) \/ ~Broadcastable(prob, pmax) THEN Raised
      ELSE [i \in 1..Len(pmax) |-> Scale - (Bc(prob, i) - pmax[i])]

\* 0.5 - ((prob - prediction.max(axis=1)) / 2), in 1/(2*Scale) units.
margin(prediction, y) ==
  LET after == margin_mutated(prediction, y)
      prob  == [i \in 1..Len(y) |-> ToF32(prediction[i][y[i] + 1])]
      pmax  == [i \in 1..Len(after) |-> RowMax(after[i])]
  IN  IF Len(y) > Len(prediction) \/ ~Broadcastable(prob, pmax) THEN Raised
      ELSE [i \in 1..Len(pmax) |-> Scale - (Bc(prob, i) - pmax[i])]

\* ------------------------------------------------ regression score functions
\* (mutation: np.abs left out)
absolute_error_noabs(prediction, y) ==
  IF ~Broadcastable(prediction, y) THEN Raised
  ELSE [i \in 1..Max2(Len(prediction), Len(y)) |->
          Bc(prediction, i) - Bc(y, i)]

absolute_error(prediction, y) ==
  IF ~Broadcastable(prediction, y) THEN Raised
  ELSE [i \in 1..Max2(Len(prediction), Len(y)) |->
          Abs(Bc(prediction, i) - Bc(y, i))]

\* (mutation: the operands exchanged, y - prediction)
signed_error_reversed(prediction, y) ==
  IF ~Broadcastable(prediction, y) THEN Raised
  ELSE [i \in 1..Max2(Len(prediction), Len(y)) |->
          Bc(y, i) - Bc(prediction, i)]

signed_error(prediction, y) ==
  IF ~Broadcastable(prediction, y) THEN Raised
  ELSE [i \in 1..Max2(Len(prediction), Len(y)) |->
          Bc(prediction, i) - Bc(y, i)]

\* (mutation: the clamp border = max(border, 0) left out)
absolute_error_border_noclamp(n, sig) == FloorMul(sig[1], sig[2], n + 1) - 1

absolute_error_border(n, sig) == Max2(FloorMul(sig[1], sig[2], n + 1) - 1, 0)

absolute_error_inverse(prediction, nc, sig) ==
  LET sorted == Reversed(np_sort(nc))
      border == absolute_error_border(Len(nc), sig)
  IN  IF ~InRange(sorted, border) THEN Raised
      ELSE [i \in 1..Len(prediction) |->
              << prediction[i] - At(sorted, border),
                 prediction[i] + At(sorted, border) >>]

signed_error_upper(n, sig) == Max2(FloorMul(sig[1], 2 * sig[2], n + 1), 0)

\* (mutation: the clamp lower = min(lower, nc.size - 1) left out)
signed_error_lower_noclamp(n, sig) ==
  FloorMul(2 * sig[2] - sig[1], 2 * sig[2], n + 1)

\* (mutation: the clamp off by one, lower = min(lower, nc.size))
signed_error_lower_clamp_size(n, sig) ==
  Min2(FloorMul(2 * sig[2] - sig[1], 2 * sig[2], n + 1), n)

signed_error_lower(n, sig) ==
  Min2(FloorMul(2 * sig[2] - sig[1], 2 * sig[2], n + 1), n - 1)

\* (mutation: the pool sorted ascending, [::-1] left out)
signed_error_inverse_ascending(prediction, nc, sig) ==
  LET sorted == np_sort(nc)
      upper == signed_error_upper(Len(nc), sig)
      lower == signed_error_lower(Len(nc), sig)
  IN  IF ~InRange(sorted, upper) \/ ~InRange(sorted, lower) THEN Raised
      ELSE [i \in 1..Len(prediction) |->
              << prediction[i] + At(sorted, lower),
                 prediction[i] + At(sorted, upper) >>]

signed_error_inverse(prediction, nc, sig) ==
  LET sorted == Reversed(np_sort(nc))
      upper == signed_error_upper(Len(nc), sig)
      lower == signed_error_lower(Len(nc), sig)
  IN  IF ~InRange(sorted, upper) \/ ~InRange(sorted, lower) THEN Raised
      ELSE [i \in 1..Len(prediction) |->
              << prediction[i] + At(sorted, lower),
                 prediction[i] + At(sorted, upper) >>]

\* ------------------------------------------------------------------ arrays
\* The caller's input arrays (one feature per sample) and the prediction
\* arrays.  A prediction slot holding <<>> is unallocated.
Obj == {"a", "b"}
XVals == {<<0>>, <<1>>, <<0, 1>>}
PObj == {"p1", "p2", "p3", "p4"}
Free == <<>>
Alloc(ph) == CHOOSE p \in PObj : ph[p] = Free

\* np.array_equal(a1, a2): same shape and same elements.
array_equal(a1, a2) == Len(a1) = Len(a2) /\ \A i \in 1..Len(a1) : a1[i] = a2[i]

\* ---------------------------------------------------------- wrapped model
\* The wrapped estimator is an external collaborator.  Its state is the
\* number of trainings it has gone through; its output is a function of that
\* state and of the input values, different for different (state, sample).
ClassifierNc == "ProbEstClassifierNc"
RegressorNc == "RegressorNc"

model_predict_proba(m, xv) ==
  [i \in 1..Len(xv) |->
     LET p == Scale - ((2 * m + xv[i]) % (Scale + 1))
     IN  <<p, Scale - p>>]

model_predict(m, xv) == [i \in 1..Len(xv) |-> 2 * m + xv[i]]

\* self.model.predict_proba(x) / self.model.predict(x)
Inference(self, xv) ==
  IF self.cls = ClassifierNc THEN model_predict_proba(self.model, xv)
  ELSE model_predict(self.model, xv)

ModelError == "ModelError"
NumpyError == "NumpyError"

\* ---------------------------------------------------------------- adapters
\* __init__: nothing cached, dirty, the model built but not trained.
NewAdapter(cls, err_func, inverse_err_func) ==
  [cls |-> cls, last_x |-> None, last_prediction |-> None, clean |-> FALSE,
   err_func |-> err_func, inverse_err_func |-> inverse_err_func, model |-> 0]

\* (mutation: fit without self.clean = False)
fit_keeps_clean(self, raises) ==
  IF raises
  THEN [self |-> self, raised |-> ModelError, train |-> 1]
  ELSE [self |-> [self EXCEPT !.model = @ + 1], raised |-> None, train |-> 1]

\* fit(x, y).  The training either raises, which is taken to leave the model
\* as it was, or returns with the model retrained.  Result: the adapter, the
\* error raised (None: returned), the model calls made.
fit(self, raises) ==
  IF raises
  THEN [self |-> self, raised |-> ModelError, train |-> 1]
  ELSE [self |-> [self EXCEPT !.model = @ + 1, !.clean = FALSE],
        raised |-> None, train |-> 1]

\* The two statements of fit, for a fit that another thread may interleave
\* with: self.model.fit(x, y), then self.clean = False.
fit_model_fit(self) == [self EXCEPT !.model = @ + 1]

\* (mutation: the statement self.clean = False left out)
fit_clean_kept(self) == self

fit_clean_false(self) == [self EXCEPT !.clean = FALSE]

\* (mutation: the cached input compared by identity, not by value)
cache_miss_by_identity(self, hp, x) ==
  IF ~self.clean THEN TRUE ELSE self.last_x # x

\* The test of underlying_predict: recompute?
cache_miss(self, hp, x) ==
  IF ~self.clean THEN TRUE
  ELSE IF self.last_x = None THEN TRUE
  ELSE ~array_equal(hp[self.last_x], hp[x])

\* (mutation: no cache test, every call recomputes)
underlying_predict_nocache(self, ph, hp, x, fails) ==
  LET s1 == [self EXCEPT !.last_x = x]
  IN  IF fails
      THEN [self |-> s1, pheap |-> ph, ret |-> None,
            raised |-> ModelError, infer |-> 1]
      ELSE LET p   == Alloc(ph)
               ph1 == [ph EXCEPT ![p] = Inference(self, hp[x])]
               q   == Alloc(ph1)
           IN  [self |-> [s1 EXCEPT !.last_prediction = p, !.clean = TRUE],
                pheap |-> [ph1 EXCEPT ![q] = ph1[p]],
                ret |-> q, raised |-> None, infer |-> 1]

\* (mutation: return self.last_prediction itself, without .copy())
underlying_predict_nocopy(self, ph, hp, x, fails) ==
  IF (IF ~self.clean THEN TRUE
      ELSE IF self.last_x = None THEN TRUE
      ELSE ~array_equal(hp[self.last_x], hp[x]))
  THEN LET s1 == [self EXCEPT !.last_x = x]
       IN  IF fails
           THEN [self |-> s1, pheap |-> ph, ret |-> None,
                 raised |-> ModelError, infer |-> 1]
           ELSE LET p == Alloc(ph)
                IN  [self |-> [s1 EXCEPT !.last_prediction = p, !.clean = TRUE],
                     pheap |-> [ph EXCEPT ![p] = Inference(self, hp[x])],
                     ret |-> p, raised |-> None, infer |-> 1]
  ELSE [self |-> self, pheap |-> ph, ret |-> self.last_prediction,
        raised |-> None, infer |-> 0]

\* (mutation: an inference failure answered from the cache when there is one)
underlying_predict_fallback(self, ph, hp, x, fails) ==
  IF (IF ~self.clean THEN TRUE
      ELSE IF self.last_x = None THEN TRUE
      ELSE ~array_equal(hp[self.last_x], hp[x]))
  THEN LET s1 == [self EXCEPT !.last_x = x]
       IN  IF fails /\ self.last_prediction = None
           THEN [self |-> s1, pheap |-> ph, ret |-> None,
                 raised |-> ModelError, infer |-> 1]
           ELSE IF fails
           THEN LET q == Alloc(ph)
                IN  [self |-> s1,
                     pheap |-> [ph EXCEPT ![q] = ph[self.last_prediction]],
                     ret |-> q, raised |-> None, infer |-> 1]
           ELSE LET p   == Alloc(ph)
                    ph1 == [ph EXCEPT ![p] = Inference(self, hp[x])]
                    q   == Alloc(ph1)
                IN  [self |-> [s1 EXCEPT !.last_prediction = p, !.clean = TRUE],
                     pheap |-> [ph1 EXCEPT ![q] = ph1[p]],
                     ret |-> q, raised |-> None, infer |-> 1]
  ELSE LET q == Alloc(ph)
       IN  [self |-> self,
            pheap |-> [ph EXCEPT ![q] = ph[self.last_prediction]],
            ret |-> q, raised |-> None, infer |-> 0]

\* underlying_predict(x) on prediction heap ph and input heap hp; fails says
\* whether the model's inference raises if it is invoked.  Result: the
\* adapter, the prediction heap, the array returned (ret), the error raised,
\* the number of inference calls made.
underlying_predict(self, ph, hp, x, fails) ==
  IF cache_miss(self, hp, x)
  THEN LET s1 == [self EXCEPT !.last_x = x]
       IN  IF fails
           THEN [self |-> s1, pheap |-> ph, ret |-> None,
                 raised |-> ModelError, infer |-> 1]
           ELSE LET p   == Alloc(ph)
                    ph1 == [ph EXCEPT ![p] = Inference(self, hp[x])]
                    s2  == [s1 EXCEPT !.last_prediction = p, !.clean = TRUE]
                    q   == Alloc(ph1)
                IN  [self |-> s2,
                     pheap |-> [ph1 EXCEPT ![q] = ph1[p]],
                     ret |-> q, raised |-> None, infer |-> 1]
  ELSE LET q == Alloc(ph)
       IN  [self |-> self,
            pheap |-> [ph EXCEPT ![q] = ph[self.last_prediction]],
            ret |-> q, raised |-> None, infer |-> 0]

\* RegressorNc repeats fit and underlying_predict of ProbEstClassifierNc in
\* its own text, with self.model.predict in place of predict_proba.  For the
\* comparison of the two classes that text is translated on its own: fit,
\* lines 140-142, and underlying_predict, lines 144-153.
RegressorNc_fit(self, raises) ==
  IF raises
  THEN [self |-> self, raised |-> ModelError, train |-> 1]
  ELSE [self |-> [self EXCEPT !.model = @ + 1, !.clean = FALSE],
        raised |-> None, train |-> 1]

\* (mutation: self.last_x = x moved after the inference call)
RegressorNc_underlying_predict_x_late(self, ph, hp, x, fails) ==
  IF (IF ~self.clean THEN TRUE
      ELSE IF self.last_x = None THEN TRUE
      ELSE ~array_equal(hp[self.last_x], hp[x]))
  THEN IF fails
       THEN [self |-> self, pheap |-> ph, ret |-> None,
             raised |-> ModelError, infer |-> 1]
       ELSE LET p   == Alloc(ph)
                ph1 == [ph EXCEPT ![p] = model_predict(self.model, hp[x])]
                s2  == [self EXCEPT !.last_prediction = p, !.last_x = x,
                                    !.clean = TRUE]
                q   == Alloc(ph1)
            IN  [self |-> s2,
                 pheap |-> [ph1 EXCEPT ![q] = ph1[p]],
                 ret |-> q, raised |-> None, infer |-> 1]
  ELSE LET q == Alloc(ph)
       IN  [self |-> self,
            pheap |-> [ph EXCEPT ![q] = ph[self.last_prediction]],
            ret |-> q, raised |-> None, infer |-> 0]

RegressorNc_underlying_predict(self, ph, hp, x, fails) ==
  IF (IF ~self.clean THEN TRUE
      ELSE IF self.last_x = None THEN TRUE
      ELSE ~array_equal(hp[self.last_x], hp[x]))
  THEN LET s1 == [self EXCEPT !.last_x = x]
       IN  IF fails
           THEN [self |-> s1, pheap |-> ph, ret |-> None,
                 raised |-> ModelError, infer |-> 1]
           ELSE LET p   == Alloc(ph)
                    ph1 == [ph EXCEPT ![p] = model_predict(self.model, hp[x])]
                    s2  == [s1 EXCEPT !.last_prediction = p, !.clean = TRUE]
                    q   == Alloc(ph1)
                IN  [self |-> s2,
                     pheap |-> [ph1 EXCEPT ![q] = ph1[p]],
                     ret |-> q, raised |-> None, infer |-> 1]
  ELSE LET q == Alloc(ph)
       IN  [self |-> self,
            pheap |-> [ph EXCEPT ![q] = ph[self.last_prediction]],
            ret |-> q, raised |-> None, infer |-> 0]

\* self.err_func(prediction, y): the scores, and the prediction array as the
\* score function leaves it.
err_scores(f, prediction, y) ==
  CASE f = "inverse_probability" -> inverse_probability(prediction, y)
    [] f = "margin"              -> margin(prediction, y)
    [] f = "absolute_error"      -> absolute_error(prediction, y)
    [] f = "signed_error"        -> signed_error(prediction, y)

err_leaves(f, prediction, y) ==
  IF f = "margin" THEN margin_mutated(prediction, y) ELSE prediction

\* self.inverse_err_func(prediction, nc, significance)
inverse_bounds(f, prediction, nc, sig) ==
  CASE f = "absolute_error_inverse" -> absolute_error_inverse(prediction, nc, sig)
    [] f = "signed_error_inverse"   -> signed_error_inverse(prediction, nc, sig)

\* calc_nc(x, y).  Result: as underlying_predict, with the scores returned
\* (value) and the number of score-function calls made (score).
calc_nc(self, ph, hp, x, y, fails) ==
  LET r == underlying_predict(self, ph, hp, x, fails)
  IN  IF r.raised # None
      THEN [self |-> r.self, pheap |-> r.pheap, value |-> Raised,
            raised |-> r.raised, infer |-> r.infer, score |-> 0]
      ELSE LET prediction == r.pheap[r.ret]
               scores == err_scores(self.err_func, prediction, y)
           IN  [self |-> r.self,
                pheap |-> [r.pheap EXCEPT
                             ![r.ret] = err_leaves(self.err_func, prediction, y)],
                value |-> scores,
                raised |-> IF scores = Raised THEN NumpyError ELSE None,
                infer |-> r.infer, score |-> 1]

\* (mutation: predict calls self.model.predict(x) itself, past the cache)
predict_direct(self, ph, hp, x, nc, sig, fails) ==
  IF fails
  THEN [self |-> self, pheap |-> ph, value |-> Raised,
        raised |-> ModelError, infer |-> 1, score |-> 0]
  ELSE LET bounds == inverse_bounds(self.inverse_err_func,
                                    Inference(self, hp[x]), nc, sig)
       IN  [self |-> self, pheap |-> ph, value |-> bounds,
            raised |-> IF bounds = Raised THEN NumpyError ELSE None,
            infer |-> 1, score |-> 1]

\* predict(x, nc, significance) of RegressorNc.
predict(self, ph, hp, x, nc, sig, fails) ==
  LET r == underlying_predict(self, ph, hp, x, fails)
  IN  IF r.raised # None
      THEN [self |-> r.self, pheap |-> r.pheap, value |-> Raised,
            raised |-> r.raised, infer |-> r.infer, score |-> 0]
      ELSE LET bounds == inverse_bounds(self.inverse_err_func,
                                        r.pheap[r.ret], nc, sig)
           IN  [self |-> r.self, pheap |-> r.pheap, value |-> bounds,
                raised |-> IF bounds = Raised THEN NumpyError ELSE None,
                infer |-> r.infer, score |-> 1]

\* ------------------------------------------------------------ state machine
VARIABLES
  self,     \* the adapter under test: its attributes
  heap,     \* the caller's input arrays: object -> values
  pheap,    \* prediction arrays: object -> values (<<>>: unallocated)
  held,     \* the array underlying_predict last returned to the caller
  touched,  \* the caller wrote into an array since the last call
  fill,     \* history: input values and model output of the last cache fill
  last,     \* history: the most recent call, its entry state and outcome
            \* (forgotten when the caller writes into an array)
  fn,       \* score-function harness: the function applied ("" before)
  input,    \* score-function harness: its arguments
  out,      \* score-function harness: its result and the arrays it leaves
  threads,  \* two threads on the one adapter: where each stands, its locals
  peer      \* a RegressorNc driven in step with the adapter under test

vars ==
  <<self, heap, pheap, held, touched, fill, last, fn, input, out, threads, peer>>
harnessVars == <<fn, input, out>>
sideVars == <<threads, peer>>

NoCall ==
  [op |-> "none", x |-> None, xval |-> <<>>, y |-> <<>>,
   prev_op |-> "none", prev_raised |-> None, prev_infer |-> 0,
   pre_clean |-> FALSE, pre_last_x |-> None, pre_equal |-> FALSE,
   pre_fill_x |-> <<>>,
   raised |-> None, model_raised |-> None,
   train |-> 0, infer |-> 0, score |-> 0, value |-> <<>>]

\* The entry state a call finds, recorded with the call.
Entry(op, x, y) ==
  [NoCall EXCEPT
     !.op = op, !.x = x, !.xval = IF x = None THEN <<>> ELSE heap[x], !.y = y,
     !.prev_op = last.op, !.prev_raised = last.raised,
     !.prev_infer = last.infer,
     !.pre_clean = self.clean, !.pre_last_x = self.last_x,
     !.pre_equal = (IF self.last_x = None \/ x = None THEN FALSE
                    ELSE array_equal(heap[self.last_x], heap[x])),
     !.pre_fill_x = fill.x]

\* Arrays nobody refers to any more are reclaimed, and since the name of an
\* object is immaterial the live ones are renamed: the cached prediction to
\* p1, the array the caller holds to p2 (to p1 if it is the cached array).
CacheRef(s) == IF s.last_prediction = None THEN None ELSE "p1"
HeldRef(s, h) ==
  IF h = None THEN None ELSE IF h = s.last_prediction THEN "p1" ELSE "p2"
Collect(ph, s, h) ==
  [p \in PObj |->
     IF p = "p1" /\ s.last_prediction # None THEN ph[s.last_prediction]
     ELSE IF p = "p2" /\ h # None /\ h # s.last_prediction THEN ph[h]
     ELSE Free]
Renamed(s) == [s EXCEPT !.last_prediction = CacheRef(s)]

\* The history of cache fills: a call that invoked inference and got its output.
Filled(r, x) ==
  IF r.infer = 1 /\ r.self.clean /\ r.self.last_x = x /\ r.raised # ModelError
  THEN [x |-> heap[x], out |-> Inference(self, heap[x])]
  ELSE fill

Labels(xv) ==
  IF self.cls = ClassifierNc THEN [1..Len(xv) -> Classes]
  ELSE {[i \in 1..Len(xv) |-> t] : t \in {0, 3}}

ErrFuncs(cls) ==
  IF cls = ClassifierNc THEN {"inverse_probability", "margin"}
  ELSE {"absolute_error", "signed_error"}

InverseOf(f) ==
  CASE f = "absolute_error" -> "absolute_error_inverse"
    [] f = "signed_error"   -> "signed_error_inverse"
    [] OTHER                -> None

HarnessIdle == fn = "" /\ input = <<>> /\ out = <<>>

\* No threads started; no second adapter driven.
NoThreads ==
  [fit |-> "none", up |-> "none", x |-> None, y |-> <<>>, tmp |-> <<>>,
   ret |-> <<>>, value |-> <<>>, seen |-> -1, clean_by |-> "none",
   later |-> FALSE]
NoPeer ==
  [self |-> NewAdapter(RegressorNc, "absolute_error", "absolute_error_inverse"),
   pheap |-> [p \in PObj |-> Free], raised |-> None, infer |-> 0]
SideIdle == threads = NoThreads /\ peer = NoPeer

Init ==
  /\ \E cls \in {ClassifierNc, RegressorNc} : \E f \in ErrFuncs(cls) :
       self = NewAdapter(cls, f, InverseOf(f))
  /\ heap \in [Obj -> XVals]
  /\ pheap = [p \in PObj |-> Free]
  /\ held = None
  /\ touched = FALSE
  /\ fill = [x |-> <<>>, out |-> <<>>]
  /\ last = NoCall
  /\ HarnessIdle
  /\ SideIdle

\* adapter.fit(x, y); the training data are not part of the model.
Fit(raises) ==
  /\ raises \/ self.model < MaxFit
  /\ LET r == fit(self, raises)
     IN  /\ self' = Renamed(r.self)
         /\ last' = [Entry("fit", None, <<>>) EXCEPT
                       !.raised = r.raised,
                       !.model_raised = IF raises THEN ModelError ELSE None,
                       !.train = r.train]
         /\ pheap' = Collect(pheap, r.self, None)
  /\ held' = None
  /\ touched' = FALSE
  /\ UNCHANGED <<heap, fill, harnessVars, sideVars>>

\* adapter.underlying_predict(x)
UnderlyingPredict(x, fails) ==
  /\ fails => cache_miss(self, heap, x)
  /\ LET r == underlying_predict(self, pheap, heap, x, fails)
     IN  /\ self' = Renamed(r.self)
         /\ held' = HeldRef(r.self, r.ret)
         /\ pheap' = Collect(r.pheap, r.self, r.ret)
         /\ fill' = Filled(r, x)
         /\ last' = [Entry("underlying_predict", x, <<>>) EXCEPT
                       !.raised = r.raised,
                       !.model_raised = IF fails THEN ModelError ELSE None,
                       !.infer = r.infer,
                       !.value = IF r.ret = None THEN Raised ELSE r.pheap[r.ret]]
  /\ touched' = FALSE
  /\ UNCHANGED <<heap, harnessVars, sideVars>>

\* adapter.calc_nc(x, y)
CalcNc(x, y, fails) ==
  /\ fails => cache_miss(self, heap, x)
  /\ LET r == calc_nc(self, pheap, heap, x, y, fails)
     IN  /\ self' = Renamed(r.self)
         /\ pheap' = Collect(r.pheap, r.self, None)
         /\ fill' = Filled(r, x)
         /\ last' = [Entry("calc_nc", x, y) EXCEPT
                       !.raised = r.raised,
                       !.model_raised = IF fails THEN ModelError ELSE None,
                       !.infer = r.infer, !.score = r.score,
                       !.value = r.value]
  /\ held' = None
  /\ touched' = FALSE
  /\ UNCHANGED <<heap, harnessVars, sideVars>>

\* adapter.predict(x, nc, significance), RegressorNc only
Predict(x, nc, sig, fails) ==
  /\ self.cls = RegressorNc
  /\ fails => cache_miss(self, heap, x)
  /\ LET r == predict(self, pheap, heap, x, nc, sig, fails)
     IN  /\ self' = Renamed(r.self)
         /\ pheap' = Collect(r.pheap, r.self, None)
         /\ fill' = Filled(r, x)
         /\ last' = [Entry("predict", x, <<>>) EXCEPT
                       !.raised = r.raised,
                       !.model_raised = IF fails THEN ModelError ELSE None,
                       !.infer = r.infer, !.score = r.score,
                       !.value = r.value]
  /\ held' = None
  /\ touched' = FALSE
  /\ UNCHANGED <<heap, harnessVars, sideVars>>

\* The caller writes new values into one of its input arrays, in place.
MutateInput(o, v) ==
  /\ heap[o] # v
  /\ Len(heap[o]) = Len(v)
  /\ heap' = [heap EXCEPT ![o] = v]
  /\ touched' = TRUE
  /\ last' = NoCall
  /\ UNCHANGED <<self, pheap, held, fill, harnessVars, sideVars>>

\* What a caller's write leaves in a prediction array: its first row (or
\* element) overwritten.
Scribbled(a) ==
  IF self.cls = ClassifierNc
  THEN [a EXCEPT ![1] = [j \in 1..Len(a[1]) |-> NegInf]]
  ELSE [a EXCEPT ![1] = NegInf]

\* The caller writes into the array underlying_predict returned to it.
MutateReturned ==
  /\ held # None
  /\ pheap[held] # Scribbled(pheap[held])
  /\ pheap' = [pheap EXCEPT ![held] = Scribbled(pheap[held])]
  /\ touched' = TRUE
  /\ last' = NoCall
  /\ UNCHANGED <<self, heap, held, fill, harnessVars, sideVars>>

PoolOfCalls == <<3, 1, 2>>
SigOfCalls == <<1, 2>>

Next ==
  \/ \E raises \in BOOLEAN : Fit(raises)
  \/ \E x \in Obj, fails \in BOOLEAN : UnderlyingPredict(x, fails)
  \/ \E x \in Obj, fails \in BOOLEAN : \E y \in Labels(heap[x]) :
       CalcNc(x, y, fails)
  \/ \E x \in Obj, fails \in BOOLEAN : Predict(x, PoolOfCalls, SigOfCalls, fails)
  \/ \E o \in Obj, v \in XVals : MutateInput(o, v)
  \/ MutateReturned

Spec == Init /\ [][Next]_vars

\* The adapter driven by calls alone: the caller never writes into an array.
NextCalls ==
  \/ \E raises \in BOOLEAN : Fit(raises)
  \/ \E x \in Obj, fails \in BOOLEAN : UnderlyingPredict(x, fails)
  \/ \E x \in Obj, fails \in BOOLEAN : \E y \in Labels(heap[x]) :
       CalcNc(x, y, fails)
  \/ \E x \in Obj, fails \in BOOLEAN : Predict(x, PoolOfCalls, SigOfCalls, fails)

SpecCalls == Init /\ [][NextCalls]_vars

\* ------------------------------------------------- score-function harness
\* The score functions are pure: each is applied once to arguments drawn
\* from bounded sets.  Probability rows are the valid distributions over the
\* classes in 1/Scale units; pools are the non-empty score sequences up to
\* MaxPool long; significances are the k/SigDen strictly between 0 and 1,
\* with the pool and the significances of the documented scenarios added.
ProbRows(k) ==
  {r \in [1..k -> 0..Scale] :
     \E p \in 0..Scale : r[1] = p /\ (IF k = 2 THEN r[2] = Scale - p
                                       ELSE r[2] + r[3] = Scale - p)}

ClfInputs ==
  {[family |-> "clf", matrix |-> m, y |-> y, vector |-> <<>>, nc |-> <<>>,
    sig |-> <<>>] :
     m \in SeqsUpTo(ProbRows(2), MaxSamples), y \in SeqsUpTo(Classes, MaxSamples)}
  \cup
  {[family |-> "clf", matrix |-> <<r>>, y |-> <<c>>, vector |-> <<>>,
    nc |-> <<>>, sig |-> <<>>] : r \in ProbRows(3), c \in 0..2}

ScenarioPool == <<1, 2, 3, 4, 5>>
Pools == SeqsUpTo((-MaxScore)..MaxScore, MaxPool) \cup {ScenarioPool}
Significances ==
  {<<k, SigDen>> : k \in 1..(SigDen - 1)} \cup {<<1, 10>>, <<4, 10>>, <<9, 10>>}
PredVectors == {<<0>>, <<2, 7>>}

InvInputs ==
  {[family |-> "inv", matrix |-> <<>>, y |-> <<>>, vector |-> v, nc |-> nc,
    sig |-> sg] : v \in PredVectors, nc \in Pools, sg \in Significances}

\* Arguments of the regression score functions: a prediction vector and a
\* target vector of the same length.
ErrValues == {-3, 0, 2, 5}
RegInputs ==
  {[family |-> "reg", matrix |-> <<>>, y |-> y, vector |-> v, nc |-> <<>>,
    sig |-> <<>>] :
     v \in SeqsUpTo(ErrValues, MaxSamples),
     y \in SeqsUpTo(ErrValues, MaxSamples)}

AdapterIdle ==
  /\ self = NewAdapter(ClassifierNc, "inverse_probability", None)
  /\ heap = [o \in Obj |-> <<0>>]
  /\ pheap = [p \in PObj |-> Free]
  /\ held = None
  /\ touched = FALSE
  /\ fill = [x |-> <<>>, out |-> <<>>]
  /\ last = NoCall
  /\ SideIdle

adapterVars == <<self, heap, pheap, held, touched, fill, last>>

InitFn ==
  /\ AdapterIdle
  /\ fn = ""
  /\ input \in {i \in ClfInputs : Len(i.matrix) = Len(i.y)} \cup InvInputs
                \cup {i \in RegInputs : Len(i.vector) = Len(i.y)}
  /\ out = <<>>

ApplyInverseProbability ==
  /\ fn = "" /\ input.family = "clf"
  /\ fn' = "inverse_probability"
  /\ out' = [value |-> inverse_probability(input.matrix, input.y),
             left  |-> err_leaves("inverse_probability", input.matrix, input.y)]
  /\ UNCHANGED <<input, adapterVars, sideVars>>

ApplyMargin ==
  /\ fn = "" /\ input.family = "clf"
  /\ fn' = "margin"
  /\ out' = [value |-> margin(input.matrix, input.y),
             left  |-> err_leaves("margin", input.matrix, input.y)]
  /\ UNCHANGED <<input, adapterVars, sideVars>>

\* The regression score functions are applied to (prediction, y) and, for
\* comparison, to the exchanged arguments (y, prediction).
ApplyAbsoluteError ==
  /\ fn = "" /\ input.family = "reg"
  /\ fn' = "absolute_error"
  /\ out' = [value   |-> absolute_error(input.vector, input.y),
             swapped |-> absolute_error(input.y, input.vector),
             left    |-> err_leaves("absolute_error", input.vector, input.y)]
  /\ UNCHANGED <<input, adapterVars, sideVars>>

ApplySignedError ==
  /\ fn = "" /\ input.family = "reg"
  /\ fn' = "signed_error"
  /\ out' = [value   |-> signed_error(input.vector, input.y),
             swapped |-> signed_error(input.y, input.vector),
             left    |-> err_leaves("signed_error", input.vector, input.y)]
  /\ UNCHANGED <<input, adapterVars, sideVars>>

ApplyAbsoluteErrorInverse ==
  /\ fn = "" /\ input.family = "inv"
  /\ fn' = "absolute_error_inverse"
  /\ out' = [value |-> absolute_error_inverse(input.vector, input.nc, input.sig),
             left  |-> input.vector]
  /\ UNCHANGED <<input, adapterVars, sideVars>>

ApplySignedErrorInverse ==
  /\ fn = "" /\ input.family = "inv"
  /\ fn' = "signed_error_inverse"
  /\ out' = [value |-> signed_error_inverse(input.vector, input.nc, input.sig),
             left  |-> input.vector]
  /\ UNCHANGED <<input, adapterVars, sideVars>>

NextFn ==
  \/ ApplyInverseProbability
  \/ ApplyMargin
  \/ ApplyAbsoluteError
  \/ ApplySignedError
  \/ ApplyAbsoluteErrorInverse
  \/ ApplySignedErrorInverse

SpecFn == InitFn /\ [][NextFn]_vars

\* ------------------------------------------------ two threads, one adapter
\* One thread runs fit(x, y), another runs calc_nc(x, y) on the same adapter,
\* and the interpreter may switch between them after every statement (and
\* between a call's return and the assignment of its result).  The model's
\* own fit and predict calls are taken to be atomic and to return.
\*   fit:      "start" -model.fit-> "trained" -clean = False-> "done"
\*   calc_nc:  "start" -test-> "set_x" -> "infer" -> "store" -> "mark"
\*             -> "copy" -> "score" -> "done"   (test false: "start" -> "copy")
\* threads.seen is the training count of the model at the inference call and
\* threads.clean_by the thread that wrote self.clean last (both history).

InitThreads ==
  /\ heap \in [Obj -> XVals]
  /\ \E cls \in {ClassifierNc, RegressorNc} : \E f \in ErrFuncs(cls) :
     \E warm \in BOOLEAN, x0 \in Obj :
       LET a == NewAdapter(cls, f, InverseOf(f))
           r == underlying_predict(a, [p \in PObj |-> Free], heap, x0, FALSE)
       IN  /\ self = IF warm THEN Renamed(r.self) ELSE a
           /\ pheap = IF warm THEN Collect(r.pheap, r.self, None)
                      ELSE [p \in PObj |-> Free]
  /\ \E x \in Obj : \E y \in Labels(heap[x]) :
       threads = [NoThreads EXCEPT !.fit = "start", !.up = "start",
                                   !.x = x, !.y = y]
  /\ held = None
  /\ touched = FALSE
  /\ fill = [x |-> <<>>, out |-> <<>>]
  /\ last = NoCall
  /\ HarnessIdle
  /\ peer = NoPeer

threadFrame == <<heap, held, touched, fill, last, harnessVars, peer>>

\* fit, line 99/141
FitTrain ==
  /\ threads.fit = "start"
  /\ self' = fit_model_fit(self)
  /\ threads' = [threads EXCEPT !.fit = "trained"]
  /\ UNCHANGED <<pheap, threadFrame>>

\* fit, line 100/142
FitMarkDirty ==
  /\ threads.fit = "trained"
  /\ self' = fit_clean_false(self)
  /\ threads' = [threads EXCEPT !.fit = "done", !.clean_by = "fit"]
  /\ UNCHANGED <<pheap, threadFrame>>

\* underlying_predict, lines 103-105/145-147: the test
PredictTest ==
  /\ threads.up = "start"
  /\ threads' = [threads EXCEPT
                   !.up = IF cache_miss(self, heap, threads.x) THEN "set_x"
                          ELSE "copy"]
  /\ UNCHANGED <<self, pheap, threadFrame>>

\* line 107/149: self.last_x = x
PredictSetX ==
  /\ threads.up = "set_x"
  /\ self' = [self EXCEPT !.last_x = threads.x]
  /\ threads' = [threads EXCEPT !.up = "infer"]
  /\ UNCHANGED <<pheap, threadFrame>>

\* line 108/150, the call: self.model.predict_proba(x) / self.model.predict(x)
PredictInfer ==
  /\ threads.up = "infer"
  /\ threads' = [threads EXCEPT !.up = "store",
                                !.tmp = Inference(self, heap[threads.x]),
                                !.seen = self.model]
  /\ UNCHANGED <<self, pheap, threadFrame>>

\* line 108/150, the assignment: self.last_prediction = <the call's result>
PredictStore ==
  /\ threads.up = "store"
  /\ LET p  == Alloc(pheap)
         s1 == [self EXCEPT !.last_prediction = p]
     IN  /\ self' = Renamed(s1)
         /\ pheap' = Collect([pheap EXCEPT ![p] = threads.tmp], s1, None)
  /\ threads' = [threads EXCEPT !.up = "mark", !.tmp = <<>>]
  /\ UNCHANGED threadFrame

\* line 109/151: self.clean = True
PredictMarkClean ==
  /\ threads.up = "mark"
  /\ self' = [self EXCEPT !.clean = TRUE]
  /\ threads' = [threads EXCEPT !.up = "copy", !.clean_by = "predict"]
  /\ UNCHANGED <<pheap, threadFrame>>

\* line 111/153: return self.last_prediction.copy()
PredictCopy ==
  /\ threads.up = "copy"
  /\ threads' = [threads EXCEPT !.up = "score",
                                !.ret = pheap[self.last_prediction]]
  /\ UNCHANGED <<self, pheap, threadFrame>>

\* calc_nc, line 115/157: return self.err_func(prediction, y)
PredictScore ==
  /\ threads.up = "score"
  /\ threads' = [threads EXCEPT
                   !.up = "done",
                   !.value = err_scores(self.err_func, threads.ret, threads.y),
                   !.ret = err_leaves(self.err_func, threads.ret, threads.y)]
  /\ UNCHANGED <<self, pheap, threadFrame>>

\* Both threads have finished: a later underlying_predict(x), same input.
LaterCall ==
  /\ threads.fit = "done" /\ threads.up = "done" /\ ~threads.later
  /\ LET r == underlying_predict(self, pheap, heap, threads.x, FALSE)
     IN  /\ self' = Renamed(r.self)
         /\ held' = HeldRef(r.self, r.ret)
         /\ pheap' = Collect(r.pheap, r.self, r.ret)
         /\ last' = [Entry("underlying_predict", threads.x, <<>>) EXCEPT
                       !.raised = r.raised, !.infer = r.infer,
                       !.value = r.pheap[r.ret]]
  /\ threads' = [threads EXCEPT !.later = TRUE]
  /\ UNCHANGED <<heap, touched, fill, harnessVars, peer>>

NextThreads ==
  \/ FitTrain
  \/ FitMarkDirty
  \/ PredictTest
  \/ PredictSetX
  \/ PredictInfer
  \/ PredictStore
  \/ PredictMarkClean
  \/ PredictCopy
  \/ PredictScore
  \/ LaterCall

SpecThreads == InitThreads /\ [][NextThreads]_vars

\* ------------------------------------------------- two adapters in step
\* A ProbEstClassifierNc (self, pheap) and a RegressorNc (peer) are given
\* the same calls: the same fit / underlying_predict sequence, with the same
\* input arrays, the wrapped models succeeding or raising alike.  Each
\* adapter's last call is recorded: the classifier's in last, the
\* regressor's in peer.
InitPair ==
  /\ self = NewAdapter(ClassifierNc, "inverse_probability", None)
  /\ peer = NoPeer
  /\ heap \in [Obj -> XVals]
  /\ pheap = [p \in PObj |-> Free]
  /\ held = None
  /\ touched = FALSE
  /\ fill = [x |-> <<>>, out |-> <<>>]
  /\ last = NoCall
  /\ HarnessIdle
  /\ threads = NoThreads

\* fit(x, y) on both adapters
PairFit(raises) ==
  /\ raises \/ self.model < MaxFit
  /\ LET c == fit(self, raises)
         r == RegressorNc_fit(peer.self, raises)
     IN  /\ self' = Renamed(c.self)
         /\ pheap' = Collect(pheap, c.self, None)
         /\ last' = [Entry("fit", None, <<>>) EXCEPT
                       !.raised = c.raised,
                       !.model_raised = IF raises THEN ModelError ELSE None,
                       !.train = c.train]
         /\ peer' = [self |-> Renamed(r.self),
                     pheap |-> Collect(peer.pheap, r.self, None),
                     raised |-> r.raised, infer |-> 0]
  /\ UNCHANGED <<heap, held, touched, fill, harnessVars, threads>>

\* underlying_predict(x) on both adapters; the inference, where an adapter
\* invokes it, raises on both or on neither.
PairUnderlyingPredict(x, fails) ==
  /\ fails => cache_miss(self, heap, x)
  /\ LET c == underlying_predict(self, pheap, heap, x, fails)
         r == RegressorNc_underlying_predict(peer.self, peer.pheap, heap, x,
                                             fails)
     IN  /\ self' = Renamed(c.self)
         /\ pheap' = Collect(c.pheap, c.self, None)
         /\ last' = [Entry("underlying_predict", x, <<>>) EXCEPT
                       !.raised = c.raised,
                       !.model_raised = IF fails THEN ModelError ELSE None,
                       !.infer = c.infer,
                       !.value = IF c.ret = None THEN Raised
                                 ELSE c.pheap[c.ret]]
         /\ peer' = [self |-> Renamed(r.self),
                     pheap |-> Collect(r.pheap, r.self, None),
                     raised |-> r.raised, infer |-> r.infer]
  /\ UNCHANGED <<heap, held, touched, fill, harnessVars, threads>>

\* The caller writes new values into one of the input arrays, in place.
PairMutateInput(o, v) ==
  /\ heap[o] # v
  /\ Len(heap[o]) = Len(v)
  /\ heap' = [heap EXCEPT ![o] = v]
  /\ last' = NoCall
  /\ peer' = [peer EXCEPT !.raised = None, !.infer = 0]
  /\ UNCHANGED <<self, pheap, held, touched, fill, harnessVars, threads>>

NextPair ==
  \/ \E raises \in BOOLEAN : PairFit(raises)
  \/ \E x \in Obj, fails \in BOOLEAN : PairUnderlyingPredict(x, fails)
  \/ \E o \in Obj, v \in XVals : PairMutateInput(o, v)

SpecPair == InitPair /\ [][NextPair]_vars

\* ------------------------------------------------------------------ claims
UsesCache == {"underlying_predict", "calc_nc", "predict"}
Cached == pheap[self.last_prediction]

\* The call recorded in c found no valid cache entry for its input.
Cold(c) == ~c.pre_clean \/ c.pre_last_x = None \/ ~c.pre_equal

\* C1: two underlying_predict calls in a row with the identical input, no fit
\* and no write between them, both returning: the second invokes no
\* inference and returns what the first returned, so inference runs once for
\* the pair when the first call had to fill the cache (and not at all when
\* the cache already held the input).
C1_RepeatedCallInfersOnce ==
  [][ ( /\ last.op = "underlying_predict" /\ last'.op = "underlying_predict"
        /\ last.raised = None /\ last'.raised = None
        /\ array_equal(last.xval, last'.xval) )
      => /\ last'.infer = 0
         /\ last'.value = last.value
         /\ last.infer + last'.infer = (IF Cold(last) THEN 1 ELSE 0) ]_vars

C1_Witness ==
  /\ last.op = "underlying_predict" /\ last.prev_op = "underlying_predict"
  /\ last.prev_raised = None /\ last.raised = None
  /\ last.pre_clean /\ last.pre_equal
  /\ last.prev_infer = 1 /\ last.infer = 0

\* C2: a fit that returns leaves the adapter dirty, and the call that follows
\* it invokes inference again, also for the input cached before the fit; what
\* it returns is the retrained model's output.
C2_FitInvalidates ==
  /\ (last.op = "fit" /\ last.raised = None) => ~self.clean
  /\ (last.op \in UsesCache /\ last.prev_op = "fit" /\ last.prev_raised = None)
       => /\ last.infer = 1
          /\ (last.op = "underlying_predict" /\ last.raised = None)
               => last.value = Inference(self, last.xval)

C2_Witness ==
  /\ last.op = "underlying_predict" /\ last.prev_op = "fit"
  /\ last.prev_raised = None /\ last.raised = None
  /\ last.pre_last_x # None /\ last.pre_equal
  /\ last.pre_fill_x = last.xval
  /\ last.infer = 1

\* C3: in every state reached by fit, underlying_predict, calc_nc and predict
\* calls, returning or raising, a clean adapter caches the output of the
\* model, as last trained, for its cached input last_x.
C3_CleanMeansValid ==
  self.clean =>
    /\ self.last_x # None
    /\ self.last_prediction # None
    /\ Cached = Inference(self, heap[self.last_x])

\* C4: a call finding the adapter dirty, or without a prior input, or with
\* input values other than those the cache was filled for, invokes inference
\* on its input, and unless that fails caches the output and records the
\* input.
C4_RecomputesWhenInputDiffers ==
  ( /\ last.op \in UsesCache
    /\ (~last.pre_clean \/ last.pre_last_x = None
          \/ ~array_equal(last.xval, last.pre_fill_x)) )
  => /\ last.infer = 1
     /\ last.raised # ModelError
          => /\ self.clean /\ self.last_x = last.x
             /\ Cached = Inference(self, last.xval)
             /\ fill.x = last.xval

\* C5: a clean adapter called with another array object whose values equal
\* the cached input's invokes no inference and returns a copy (a distinct
\* array with the same values) of the cached prediction.
C5_ReuseByValue ==
  ( /\ last.op = "underlying_predict"
    /\ last.pre_clean /\ last.pre_last_x # None
    /\ last.pre_last_x # last.x /\ last.pre_equal )
  => /\ last.infer = 0 /\ last.raised = None
     /\ held # None /\ held # self.last_prediction
     /\ pheap[held] = Cached
     /\ last.value = Cached

C5_Witness ==
  /\ last.op = "underlying_predict"
  /\ last.pre_clean /\ last.pre_last_x # None
  /\ last.pre_last_x # last.x /\ last.pre_equal
  /\ last.infer = 0 /\ held # None

\* C6: no step changes the cached prediction from what the model produced
\* when the cache was filled, whatever the caller or the score function writes
\* into the arrays handed out; a cache hit returns that original prediction,
\* and calc_nc repeated with the same arguments returns the same scores.
C6_ReadsAreCopies ==
  [][ /\ self'.last_prediction # None
        => pheap'[self'.last_prediction] = fill'.out
      /\ (last'.op = "underlying_predict" /\ last'.infer = 0)
        => last'.value = fill'.out
      /\ ( /\ last.op = "calc_nc" /\ last'.op = "calc_nc"
           /\ last.raised = None /\ last'.raised = None
           /\ array_equal(last.xval, last'.xval) /\ last.y = last'.y )
        => last'.value = last.value ]_vars

C6_Witness ==
  /\ self.err_func = "margin"
  /\ last.op = "calc_nc" /\ last.prev_op = "calc_nc"
  /\ last.prev_raised = None /\ last.raised = None
  /\ last.infer = 0
  /\ Cached = fill.out
  /\ \E i \in 1..Len(Cached) : Cached[i] # err_leaves("margin", Cached, last.y)[i]

\* C7: when the model's training or inference raises, the call raises that
\* same error, has called the model exactly once and the score function not
\* at all, and hands the caller no value.
C7_FailurePropagates ==
  last.model_raised # None =>
    /\ last.raised = last.model_raised
    /\ last.train + last.infer = 1
    /\ last.score = 0
    /\ last.value = Raised
    /\ held = None

C7_Witness ==
  /\ last.op = "calc_nc" /\ last.model_raised = ModelError
  /\ last.raised = ModelError
  /\ last.pre_clean /\ self.last_prediction # None

\* floor(num/den) for num >= 0, den > 0, and the score of rank k (0-based) of
\* a pool in descending order, both by their defining properties.
FloorOf(num, den) ==
  CHOOSE f \in 0..num : f * den <= num /\ num < (f + 1) * den
KthLargest(nc, k) ==
  CHOOSE v \in Range(nc) :
    /\ Cardinality({j \in 1..Len(nc) : nc[j] > v}) <= k
    /\ k < Cardinality({j \in 1..Len(nc) : nc[j] >= v})

\* C8: absolute_error_inverse returns, for every sample i, prediction[i] -/+
\* the score of rank border = max(floor(significance*(n+1)) - 1, 0) of the
\* pool in descending order; so upper - lower is twice that score for every
\* sample.
C8_AbsoluteErrorInverse ==
  fn = "absolute_error_inverse" =>
    LET n      == Len(input.nc)
        border == Max2(FloorOf(input.sig[1] * (n + 1), input.sig[2]) - 1, 0)
        half   == KthLargest(input.nc, border)
    IN  /\ Len(out.value) = Len(input.vector)
        /\ \A i \in 1..Len(input.vector) :
             /\ out.value[i] = <<input.vector[i] - half, input.vector[i] + half>>
             /\ out.value[i][2] - out.value[i][1] = 2 * half

C8_Witness ==
  /\ fn = "absolute_error_inverse"
  /\ input.nc = ScenarioPool /\ input.sig = <<4, 10>>
  /\ input.vector = <<2, 7>>
  /\ out.value = << <<-2, 6>>, <<3, 11>> >>

\* C9: signed_error_inverse returns, for every sample i, the pair
\* (prediction[i] + nc[lower_idx], prediction[i] + nc[upper_idx]) of the pool
\* in descending order, upper_idx = max(floor((significance/2)*(n+1)), 0),
\* lower_idx = min(floor((1 - significance/2)*(n+1)), n - 1).
C9_SignedErrorInverse ==
  fn = "signed_error_inverse" =>
    LET n     == Len(input.nc)
        num   == input.sig[1]
        den   == input.sig[2]
        upper == Max2(FloorOf(num * (n + 1), 2 * den), 0)
        lower == Min2(FloorOf((2 * den - num) * (n + 1), 2 * den), n - 1)
    IN  /\ Len(out.value) = Len(input.vector)
        /\ \A i \in 1..Len(input.vector) :
             out.value[i] = <<input.vector[i] + KthLargest(input.nc, lower),
                              input.vector[i] + KthLargest(input.nc, upper)>>

C9_Witness ==
  /\ fn = "signed_error_inverse"
  /\ input.nc = <<0, -2, 2>> /\ input.sig = <<1, SigDen>>
  /\ input.vector = <<2, 7>>
  /\ Len(out.value) = 2
  /\ out.value[1][1] = 2 + KthLargest(input.nc, 2)
  /\ out.value[1][1] < out.value[1][2]

\* C10: for valid probability rows and in-range labels, every element of
\* inverse_probability(prediction, y) is 1 - prediction[i, y[i]], lies in
\* [0, 1], and is 0 exactly when the true class has probability 1; the
\* matrix is left as it was.
C10_InverseProbability ==
  fn = "inverse_probability" =>
    /\ Len(out.value) = Len(input.y)
    /\ out.left = input.matrix
    /\ \A i \in 1..Len(input.y) :
         LET p == input.matrix[i][input.y[i] + 1]
         IN  /\ out.value[i] = Scale - p
             /\ 0 <= out.value[i] /\ out.value[i] <= Scale
             /\ (out.value[i] = 0) <=> (p = Scale)

\* C11 (as stated): for rows that are probability distributions over two or
\* more classes and in-range labels, every element of margin(prediction, y)
\* lies in [-0.5, 0.5] (in 1/(2*Scale) units: in -Scale..Scale).
C11_MarginRange ==
  fn = "margin" =>
    /\ Len(out.value) = Len(input.y)
    /\ \A i \in 1..Len(input.y) :
         -Scale <= out.value[i] /\ out.value[i] <= Scale

\* C11 (amended): under the same conditions every element of
\* margin(prediction, y) lies in [0, 1] (in 1/(2*Scale) units: in 0..2*Scale).
C11_MarginRangeAmended ==
  fn = "margin" =>
    /\ Len(out.value) = Len(input.y)
    /\ \A i \in 1..Len(input.y) :
         0 <= out.value[i] /\ out.value[i] <= 2 * Scale

C11_Witness ==
  /\ fn = "margin"
  /\ Len(input.matrix) = 1 /\ Len(input.matrix[1]) = 3
  /\ input.matrix[1][input.y[1] + 1] = 0
  /\ out.value = <<2 * Scale>>

\* C12: margin writes into the caller's matrix: after the call the entry
\* prediction[i, y[i]] of every sample i is negative infinity and every other
\* entry is what it was.
C12_MarginMutatesInPlace ==
  fn = "margin" =>
    /\ Len(out.left) = Len(input.matrix)
    /\ \A i \in 1..Len(input.matrix) :
         /\ Len(out.left[i]) = Len(input.matrix[i])
         /\ \A j \in 1..Len(input.matrix[i]) :
              IF j - 1 = input.y[i] THEN out.left[i][j] = NegInf
              ELSE out.left[i][j] = input.matrix[i][j]

C12_Witness ==
  /\ fn = "margin"
  /\ Len(input.matrix) = 2 /\ input.y = <<0, 1>>
  /\ out.left[1][1] = NegInf /\ out.left[2][2] = NegInf
  /\ out.left[1][2] = input.matrix[1][2] /\ out.left[1][2] # NegInf
  /\ out.left[2][1] = input.matrix[2][1] /\ out.left[2][1] # NegInf

\* C13: for prediction and y of equal length, absolute_error(p, y) equals
\* absolute_error(y, p) element by element and no element is negative.
C13_AbsoluteErrorSymmetric ==
  fn = "absolute_error" =>
    /\ Len(out.value) = Len(input.vector)
    /\ Len(out.swapped) = Len(input.vector)
    /\ \A i \in 1..Len(input.vector) :
         out.value[i] = out.swapped[i] /\ out.value[i] >= 0

C13_Witness ==
  /\ fn = "absolute_error"
  /\ input.vector = <<-3, 5>> /\ input.y = <<2, 0>>
  /\ out.value = <<5, 5>> /\ out.swapped = <<5, 5>>

\* C14: for prediction and y of equal length, signed_error(p, y)[i] is
\* p[i] - y[i], and signed_error(p, y) is the elementwise negation of
\* signed_error(y, p).
C14_SignedErrorAntisymmetric ==
  fn = "signed_error" =>
    /\ Len(out.value) = Len(input.vector)
    /\ Len(out.swapped) = Len(input.vector)
    /\ \A i \in 1..Len(input.vector) :
         /\ out.value[i] = input.vector[i] - input.y[i]
         /\ out.value[i] = -out.swapped[i]

C14_Witness ==
  /\ fn = "signed_error"
  /\ input.vector = <<-3, 5>> /\ input.y = <<2, 0>>
  /\ out.value = <<-5, 5>> /\ out.swapped = <<5, -5>>

\* C15: on a RegressorNc, calc_nc(x, y) directly followed by
\* predict(x, nc, significance) with the same input, both returning: predict
\* invokes no inference, so inference runs once for the pair when calc_nc had
\* to fill the cache (and not at all when the cache already held the input),
\* and predict returns the inverse function applied to the cached prediction,
\* the one calc_nc's scores were computed from.
C15_CalcNcThenPredictShareCache ==
  [][ ( /\ last.op = "calc_nc" /\ last'.op = "predict"
        /\ last.raised = None /\ last'.raised = None
        /\ array_equal(last.xval, last'.xval) )
      => /\ last'.infer = 0
         /\ last.infer + last'.infer = (IF Cold(last) THEN 1 ELSE 0)
         /\ last.value = err_scores(self.err_func, Cached, last.y)
         /\ last'.value = inverse_bounds(self.inverse_err_func, Cached,
                                         PoolOfCalls, SigOfCalls) ]_vars

C15_Witness ==
  /\ self.cls = RegressorNc
  /\ last.op = "predict" /\ last.prev_op = "calc_nc"
  /\ last.prev_raised = None /\ last.raised = None
  /\ last.pre_clean /\ last.pre_equal
  /\ last.prev_infer = 1 /\ last.infer = 0
  /\ last.value = inverse_bounds(self.inverse_err_func, Cached,
                                 PoolOfCalls, SigOfCalls)
  /\ last.value # Raised

\* The adapter is clean and its cached prediction is not what the model, as
\* it is now, produces for the cached input.
StaleClean ==
  /\ self.clean
  /\ self.last_x # None /\ self.last_prediction # None
  /\ Cached # Inference(self, heap[self.last_x])

\* C16: with fit and calc_nc interleaved on one adapter, once both have
\* finished the adapter is clean with a prediction of the model as it was
\* before the training exactly when calc_nc ran its inference before the
\* training and wrote clean = True after fit wrote clean = False; and a
\* later underlying_predict with the same input then invokes no inference
\* and returns that prediction of the pre-fit model.
C16_RaceLeavesStaleCleanCache ==
  (threads.fit = "done" /\ threads.up = "done") =>
    /\ StaleClean <=> ( /\ threads.clean_by = "predict"
                        /\ threads.seen # -1 /\ threads.seen < self.model )
    /\ (StaleClean /\ threads.later) =>
         /\ last.infer = 0
         /\ self.last_x = threads.x
         /\ last.value = Inference([self EXCEPT !.model = @ - 1],
                                   heap[threads.x])
         /\ last.value # Inference(self, heap[threads.x])

C16_Witness ==
  /\ threads.fit = "done" /\ threads.up = "done" /\ threads.later
  /\ threads.clean_by = "predict" /\ threads.seen < self.model
  /\ self.clean
  /\ last.op = "underlying_predict" /\ last.infer = 0
  /\ last.value = Inference([self EXCEPT !.model = @ - 1], heap[threads.x])
  /\ last.value # Inference(self, heap[threads.x])

\* C17: given the same fit / underlying_predict calls with the same inputs
\* and the same model outcomes, the RegressorNc is in every state where the
\* ProbEstClassifierNc is: the same clean flag, the same cached input, a
\* cached prediction or none alike; each call invokes inference on both or
\* on neither and raises on both or on neither; and the two cached
\* predictions are the outputs, by predict_proba and by predict, of the same
\* training state for the same input values.
C17_SameCacheStateMachine ==
  /\ self.clean = peer.self.clean
  /\ self.last_x = peer.self.last_x
  /\ self.model = peer.self.model
  /\ last.infer = peer.infer
  /\ last.raised = peer.raised
  /\ (self.last_prediction = None) <=> (peer.self.last_prediction = None)
  /\ self.last_prediction # None =>
       \E m \in 0..self.model : \E xv \in XVals :
         /\ Cached = model_predict_proba(m, xv)
         /\ peer.pheap[peer.self.last_prediction] = model_predict(m, xv)

C17_Witness ==
  /\ self.model > 0 /\ peer.self.model > 0
  /\ self.clean /\ peer.self.clean
  /\ last.op = "underlying_predict" /\ last.prev_op = "underlying_predict"
  /\ last.prev_raised = ModelError
  /\ last.raised = None /\ peer.raised = None
  /\ last.infer = 0 /\ peer.infer = 0
  /\ Cached # Inference(self, heap[self.last_x])

\* C18: for every non-empty pool of n scores and every significance strictly
\* between 0 and 1, the index absolute_error_inverse uses (border) and the
\* indices signed_error_inverse uses (upper, lower) lie, after clamping, in
\* 0..n-1, and neither function raises.
C18_IndicesInRange ==
  LET n == Len(input.nc)
  IN  /\ fn = "absolute_error_inverse" =>
           /\ absolute_error_border(n, input.sig) \in 0..(n - 1)
           /\ out.value # Raised
           /\ Len(out.value) = Len(input.vector)
      /\ fn = "signed_error_inverse" =>
           /\ signed_error_upper(n, input.sig) \in 0..(n - 1)
           /\ signed_error_lower(n, input.sig) \in 0..(n - 1)
           /\ out.value # Raised
           /\ Len(out.value) = Len(input.vector)

\* A pool of one score: the unclamped lower rank is past the end.
C18_Witness ==
  /\ fn = "signed_error_inverse"
  /\ Len(input.nc) = 1 /\ input.sig = <<1, SigDen>>
  /\ signed_error_lower_noclamp(1, input.sig) > 0
  /\ signed_error_lower(1, input.sig) = 0
  /\ out.value # Raised
  /\ \A i \in 1..Len(input.vector) :
       out.value[i] = <<input.vector[i] + input.nc[1],
                        input.vector[i] + input.nc[1]>>

\* C19: for every non-empty pool and every significance strictly between 0
\* and 1, signed_error_inverse's upper index is at most its lower index, and
\* in every returned pair the first bound is at most the second.
C19_SignedIntervalWellFormed ==
  fn = "signed_error_inverse" =>
    /\ signed_error_upper(Len(input.nc), input.sig)
         <= signed_error_lower(Len(input.nc), input.sig)
    /\ Len(out.value) = Len(input.vector)
    /\ \A i \in 1..Len(input.vector) : out.value[i][1] <= out.value[i][2]

C19_Witness ==
  /\ fn = "signed_error_inverse"
  /\ input.nc = ScenarioPool /\ input.sig = <<1, 10>>
  /\ input.vector = <<2, 7>>
  /\ out.value = << <<3, 7>>, <<8, 12>> >>

=============================================================================
